---- MODULE Spec2Model ----
(***************************************************************************)
(* The two POI request handlers of app/api/poi/views.py:                   *)
(*   get_aggregated_pois  POST /poi/flight/{icao24}/pois                   *)
(*   get_pois_details     POST /poi/pois/details                           *)
(* Each handler is a linear pass; a step of the model is one stretch of    *)
(* the handler between two suspension points, or one iteration of one of   *)
(* its loops.  An await is two steps: the call, after which the handler is *)
(* suspended, and the resumption with the answer.  Strings are TLA+        *)
(* strings, built by concatenation as the f-strings of the source build    *)
(* them.  Python's None is the empty tuple; a dict is a function whose     *)
(* DOMAIN is the set of its keys.                                          *)
(***************************************************************************)
EXTENDS Integers, Sequences, FiniteSets, TLC

VARIABLES
    pc,            \* position of the running handler
    handler,       \* the handler the request was routed to
    icao24,        \* path parameter of get_aggregated_pois
    filter,        \* FilterRequest body of get_aggregated_pois
    poi_ids,       \* PoiIdsRequest.poi_ids of get_pois_details
    flight,        \* result of get_flight_info
    poly_str,      \* result of make_poly_str
    query_parts,   \* list of clauses built from the filters
    query_str,     \* text of the Overpass query
    upstream,      \* what api.run_query did: "none", "ok" or "failed"
    elems,         \* collect_elements(query)
    idx,           \* loop index (into overpass_filters, then into elems)
    pois,          \* list of POI built by get_aggregated_pois
    aggregations,  \* dict type -> count built by get_aggregated_pois
    result,        \* dict id -> PoiDetail built by get_pois_details
    details,       \* the details dict of the node handled last
    outcome,       \* "pending", "returned", "http_error" or "unhandled"
    status,        \* HTTP status set by the handler (0: none)
    calls          \* calls made to the collaborators

vars == <<pc, handler, icao24, filter, poi_ids, flight, poly_str, query_parts, query_str,
          upstream, elems, idx, pois, aggregations, result, details, outcome,
          status, calls>>

---------------------------------------------------------------------------
\* Bounds of the model

MaxFilters == 2
MaxElems == 2
MaxIds == 2

---------------------------------------------------------------------------
\* Python values

None == <<>>

StrVal(s) == <<"str", s>>
IntVal(n) == <<"int", n>>

\* str(value) of an f-string replacement field
Format(v) == IF v[1] = "str" THEN v[2] ELSE ToString(v[2])

\* dict.get(key) and dict.get(key, default) on a dict of strings; the result
\* is None or the one-element tuple holding the string
TagGet(tags, k) == IF k \in DOMAIN tags THEN <<tags[k]>> ELSE None
TagGetDefault(tags, k, default) == IF k \in DOMAIN tags THEN tags[k] ELSE default

\* truth value of an Optional[str]: None and "" are false
Truthy(o) == o # None /\ o[1] # ""

\* a or b
Or(a, b) == IF Truthy(a) THEN a ELSE b

RECURSIVE Join(_, _)
\* sep.join(parts)
Join(sep, parts) ==
    IF Len(parts) = 0 THEN ""
    ELSE IF Len(parts) = 1 THEN parts[1]
    ELSE parts[1] \o sep \o Join(sep, Tail(parts))

RECURSIVE SeqsUpTo(_, _)
\* the lists of at most n members of S
SeqsUpTo(S, n) ==
    IF n = 0 THEN {<<>>}
    ELSE LET shorter == SeqsUpTo(S, n - 1)
         IN  shorter \cup {Append(s, x) : s \in {t \in shorter : Len(t) = n - 1}, x \in S}

---------------------------------------------------------------------------
\* Models of the request bodies

Operator == {"=", "!=", "~", "<", ">", "<=", ">="}

\* FilterCondition: operator is an Operator or None, value a str, an int or None
FilterCondition(key, operator, value) ==
    [key |-> key, operator |-> operator, value |-> value]

DefaultFilters ==
    << FilterCondition("place", <<"=">>, StrVal("city")),
       FilterCondition("place", <<"=">>, StrVal("village")),
       FilterCondition("nature", <<"=">>, StrVal("water")),
       FilterCondition("nature", <<"=">>, StrVal("mountain")) >>

DefaultDistance == 400

FilterRequest(distance, overpass_filters, with_summarization) ==
    [distance |-> distance, overpass_filters |-> overpass_filters,
     with_summarization |-> with_summarization]

POI(id, name, type) == [id |-> id, name |-> name, type |-> type]

HTTP_OK == 200
HTTP_BAD_REQUEST == 400
HTTP_NOT_FOUND == 404

NoCalls == [flight |-> 0, poly |-> 0, overpass |-> 0]

\* an element of the Overpass result: tags is the dict of its tags, attrs the
\* attributes among lat and lon that the object has (each a degree or None)
Element(id, tags, attrs) == [id |-> id, tags |-> tags, attrs |-> attrs]

---------------------------------------------------------------------------
\* Collaborators of the handlers

\* await get_flight_info(icao24): the flight, or None when it is not found
get_flight_info(i) == {None, [icao24 |-> i]}

\* make_poly_str(flight, distance): a string of "lat lon" pairs
make_poly_str(f, distance) ==
    IF distance = 0 THEN "55.7 37.6 55.7 37.6 55.7 37.6"
                    ELSE "55.6 37.5 55.8 37.5 55.7 37.8"

---------------------------------------------------------------------------
\* get_aggregated_pois

EqualityClause(key, value, poly) ==
    "node[\"" \o key \o "\"=\"" \o Format(value) \o "\"](poly:\"" \o poly \o "\");"

PresenceClause(key, poly) ==
    "node[\"" \o key \o "\"](poly:\"" \o poly \o "\");"

\* Clause, were the value tested for truth instead of for None
ClauseTruthy(cond, poly) ==
    IF cond.value # None /\ cond.value # StrVal("") /\ cond.value # IntVal(0)
    THEN EqualityClause(cond.key, cond.value, poly)
    ELSE PresenceClause(cond.key, poly)

\* Clause, were the operator of the condition written into the clause
ClauseWithOperator(cond, poly) ==
    IF cond.value # None
    THEN "node[\"" \o cond.key \o "\""
         \o (IF cond.operator = None THEN "=" ELSE cond.operator[1])
         \o "\"" \o Format(cond.value) \o "\"](poly:\"" \o poly \o "\");"
    ELSE PresenceClause(cond.key, poly)

\* the clause appended to query_parts for one condition
Clause(cond, poly) ==
    IF cond.value # None
    THEN EqualityClause(cond.key, cond.value, poly)
    ELSE PresenceClause(cond.key, poly)

AggregatedQuery(parts) ==
    "[out:json];\n(\n" \o Join("\n", parts) \o "\n);\nout body;"

\* node.tags.get("place") or node.tags.get("historic") or
\* node.tags.get("natural") or node.tags.get("tourism")
PoiType(tags) ==
    Or(TagGet(tags, "place"),
       Or(TagGet(tags, "historic"),
          Or(TagGet(tags, "natural"), TagGet(tags, "tourism"))))

\* aggregations[poi_type] = aggregations.get(poi_type, 0) + 1
Count(agg, t) ==
    [k \in DOMAIN agg \cup {t} |->
        IF k = t THEN (IF t \in DOMAIN agg THEN agg[t] ELSE 0) + 1 ELSE agg[k]]

Fail(st) == /\ pc' = "done"
            /\ outcome' = "http_error"
            /\ status' = st

\* await api.run_query(query) raised: nothing in the handler catches it
Raise == /\ pc' = "done"
         /\ outcome' = "unhandled"
         /\ status' = 0

\* AggGetFlight, were the flight not tested for None
AggGetFlightUnchecked ==
    /\ pc = "agg_flight_wait"
    /\ \E f \in get_flight_info(icao24) : flight' = f
    /\ pc' = "agg_poly"
    /\ UNCHANGED <<handler, icao24, filter, poi_ids, poly_str, query_parts,
                   query_str, upstream, elems, idx, pois, aggregations, result,
                   details, outcome, status, calls>>

\* get_flight_info(icao24) is called and the handler is suspended at the await
AggCallFlight ==
    /\ pc = "agg_flight"
    /\ calls' = [calls EXCEPT !.flight = @ + 1]
    /\ pc' = "agg_flight_wait"
    /\ UNCHANGED <<handler, icao24, filter, poi_ids, flight, poly_str,
                   query_parts, query_str, upstream, elems, idx, pois,
                   aggregations, result, details, outcome, status>>

\* the await resumes: flight = the answer; 404 when it is None
AggGetFlight ==
    /\ pc = "agg_flight_wait"
    /\ \E f \in get_flight_info(icao24) :
          /\ flight' = f
          /\ IF f = None
             THEN Fail(HTTP_NOT_FOUND)
             ELSE /\ pc' = "agg_poly"
                  /\ UNCHANGED <<outcome, status>>
    /\ UNCHANGED <<handler, icao24, filter, poi_ids, poly_str, query_parts, query_str,
                   upstream, elems, idx, pois, aggregations, result, details,
                   calls>>

\* poly_str = make_poly_str(flight, filter.distance); query_parts = []
AggMakePoly ==
    /\ pc = "agg_poly"
    /\ poly_str' = make_poly_str(flight, filter.distance)
    /\ calls' = [calls EXCEPT !.poly = @ + 1]
    /\ query_parts' = <<>>
    /\ idx' = 1
    /\ pc' = "agg_filters"
    /\ UNCHANGED <<handler, icao24, filter, poi_ids, flight, query_str, upstream, elems,
                   pois, aggregations, result, details, outcome, status>>

\* one iteration of: for cond in filter.overpass_filters
AggFilterCond ==
    /\ pc = "agg_filters"
    /\ idx <= Len(filter.overpass_filters)
    /\ query_parts' = Append(query_parts, Clause(filter.overpass_filters[idx], poly_str))
    /\ idx' = idx + 1
    /\ UNCHANGED <<pc, handler, icao24, filter, poi_ids, flight, poly_str, query_str,
                   upstream, elems, pois, aggregations, result, details, outcome,
                   status, calls>>

\* query_str = ...; query = Query(query_str)
AggBuildQuery ==
    /\ pc = "agg_filters"
    /\ idx > Len(filter.overpass_filters)
    /\ query_str' = AggregatedQuery(query_parts)
    /\ pc' = "agg_run"
    /\ UNCHANGED <<handler, icao24, filter, poi_ids, flight, poly_str, query_parts,
                   upstream, elems, idx, pois, aggregations, result, details,
                   outcome, status, calls>>

\* api.run_query(query) is called and the handler is suspended at the await
AggSubmitQuery ==
    /\ pc = "agg_run"
    /\ calls' = [calls EXCEPT !.overpass = @ + 1]
    /\ pc' = "agg_run_wait"
    /\ UNCHANGED <<handler, icao24, filter, poi_ids, flight, poly_str,
                   query_parts, query_str, upstream, elems, idx, pois,
                   aggregations, result, details, outcome, status>>

\* the await resumes, with an exception or with the answer;
\* elems = collect_elements(query); pois = []; aggregations = {}.
\* Answers is the set of element lists the service may give.
AggRunQuery(Answers) ==
    /\ pc = "agg_run_wait"
    /\ \/ /\ upstream' = "failed"
          /\ Raise
          /\ UNCHANGED <<elems, idx, pois, aggregations>>
       \/ /\ upstream' = "ok"
          /\ \E es \in Answers : elems' = es
          /\ pois' = <<>>
          /\ aggregations' = <<>>
          /\ idx' = 1
          /\ pc' = "agg_project"
          /\ UNCHANGED <<outcome, status>>
    /\ UNCHANGED <<handler, icao24, filter, poi_ids, flight, poly_str, query_parts,
                   query_str, result, details, calls>>

\* one iteration of: for node in elems
AggProject ==
    /\ pc = "agg_project"
    /\ idx <= Len(elems)
    /\ LET node == elems[idx]
           poi_type == PoiType(node.tags)
       IN  IF ~Truthy(poi_type)
           THEN UNCHANGED <<pois, aggregations>>
           ELSE /\ pois' = Append(pois, POI(node.id,
                                            TagGetDefault(node.tags, "name", "Unknown"),
                                            poi_type[1]))
                /\ aggregations' = Count(aggregations, poi_type[1])
    /\ idx' = idx + 1
    /\ UNCHANGED <<pc, handler, icao24, filter, poi_ids, flight, poly_str, query_parts,
                   query_str, upstream, elems, result, details, outcome, status,
                   calls>>

\* return FlightPOIResponse(aggregations=aggregations, pois=pois)
AggReturn ==
    /\ pc = "agg_project"
    /\ idx > Len(elems)
    /\ pc' = "done"
    /\ outcome' = "returned"
    /\ status' = HTTP_OK
    /\ UNCHANGED <<handler, icao24, filter, poi_ids, flight, poly_str, query_parts,
                   query_str, upstream, elems, idx, pois, aggregations, result,
                   details, calls>>

---------------------------------------------------------------------------
\* get_pois_details

Coordinates(latitude, longitude) == [latitude |-> latitude, longitude |-> longitude]

PoiDetail(id, name, tags, det, coordinates) ==
    [id |-> id, name |-> name, tags |-> tags, details |-> det,
     coordinates |-> coordinates]

\* Keys of the details dict.  The source spells them in Russian; they are
\* transliterated here: "Opisanie" (description), "Polnyj adres" (full
\* address), "Adres" (address), "Veb-sajt" (website), "Telefon" (phone),
\* "Chasy raboty" (opening hours).
KeyDescription == "Opisanie"
KeyFullAddress == "Polnyj adres"
KeyAddress == "Adres"
KeyWebsite == "Veb-sajt"
KeyPhone == "Telefon"
KeyOpeningHours == "Chasy raboty"

\* details[key] = node.tags[tag] if tag in node.tags
Copied(tags, tag, key) == IF tag \in DOMAIN tags THEN key :> tags[tag] ELSE <<>>

\* the list addr_parts of the else branch
AddrParts(tags) ==
    (IF "addr:street" \in DOMAIN tags THEN <<tags["addr:street"]>> ELSE <<>>)
    \o (IF "addr:housenumber" \in DOMAIN tags THEN <<tags["addr:housenumber"]>> ELSE <<>>)

\* AddressDetails, were the street address added beside the full address
AddressDetailsBoth(tags) ==
    (IF "addr:full" \in DOMAIN tags THEN KeyFullAddress :> tags["addr:full"] ELSE <<>>)
    @@ (IF AddrParts(tags) # <<>> THEN KeyAddress :> Join(" ", AddrParts(tags)) ELSE <<>>)

\* the address entry of details
AddressDetails(tags) ==
    IF "addr:full" \in DOMAIN tags
    THEN KeyFullAddress :> tags["addr:full"]
    ELSE IF AddrParts(tags) # <<>>
         THEN KeyAddress :> Join(" ", AddrParts(tags))
         ELSE <<>>

\* the details dict of one node
Details(tags) ==
    Copied(tags, "description", KeyDescription)
    @@ AddressDetails(tags)
    @@ Copied(tags, "website", KeyWebsite)
    @@ Copied(tags, "phone", KeyPhone)
    @@ Copied(tags, "opening_hours", KeyOpeningHours)

\* hasattr(node, "lat") and hasattr(node, "lon")
HasCoordinates(node) == "lat" \in DOMAIN node.attrs /\ "lon" \in DOMAIN node.attrs

\* Coordinates(latitude=node.lat, longitude=node.lon) is validated: both fields
\* are declared float, so a None raises ValidationError
CoordinatesValid(node) == node.attrs["lat"] # None /\ node.attrs["lon"] # None

\* NodeCoordinates, were the latitude alone tested
NodeCoordinatesLatOnly(node) ==
    IF "lat" \in DOMAIN node.attrs /\ node.attrs["lat"] # None
    THEN <<Coordinates(node.attrs["lat"][1],
                       IF "lon" \in DOMAIN node.attrs /\ node.attrs["lon"] # None
                       THEN node.attrs["lon"][1] ELSE 0)>>
    ELSE None

\* the coordinates argument of PoiDetail
NodeCoordinates(node) ==
    IF HasCoordinates(node)
    THEN <<Coordinates(node.attrs["lat"][1], node.attrs["lon"][1])>>
    ELSE None

\* Store, were the result a list indexed by position
StoreByPosition(res, id, poi_detail) ==
    [k \in DOMAIN res \cup {Cardinality(DOMAIN res) + 1} |->
        IF k \in DOMAIN res THEN res[k] ELSE poi_detail]

\* result[node.id] = poi_detail
Store(res, id, poi_detail) ==
    [k \in DOMAIN res \cup {id} |-> IF k = id THEN poi_detail ELSE res[k]]

RECURSIVE NodeClauses(_)
\* [f"node({poi_id});" for poi_id in poi_ids]
NodeClauses(ids) ==
    IF ids = <<>> THEN <<>>
    ELSE <<"node(" \o ToString(Head(ids)) \o ");">> \o NodeClauses(Tail(ids))

DetailsQuery(ids) ==
    "\n    [out:json];\n    (\n      " \o Join(" ", NodeClauses(ids))
    \o "\n    );\n    out body;\n    "

\* DetValidate, were the empty list not rejected
DetValidateUnchecked ==
    /\ pc = "det_validate"
    /\ query_str' = DetailsQuery(poi_ids)
    /\ pc' = "det_run"
    /\ UNCHANGED <<handler, icao24, filter, poi_ids, flight, poly_str,
                   query_parts, upstream, elems, idx, pois, aggregations, result,
                   details, outcome, status, calls>>

\* poi_ids = poi_ids_request.poi_ids; 400 when empty; else the query is built
DetValidate ==
    /\ pc = "det_validate"
    /\ IF Len(poi_ids) = 0
       THEN /\ Fail(HTTP_BAD_REQUEST)
            /\ UNCHANGED query_str
       ELSE /\ query_str' = DetailsQuery(poi_ids)
            /\ pc' = "det_run"
            /\ UNCHANGED <<outcome, status>>
    /\ UNCHANGED <<handler, icao24, filter, poi_ids, flight, poly_str, query_parts,
                   upstream, elems, idx, pois, aggregations, result, details,
                   calls>>

\* api.run_query(query) is called and the handler is suspended at the await
DetSubmitQuery ==
    /\ pc = "det_run"
    /\ calls' = [calls EXCEPT !.overpass = @ + 1]
    /\ pc' = "det_run_wait"
    /\ UNCHANGED <<handler, icao24, filter, poi_ids, flight, poly_str,
                   query_parts, query_str, upstream, elems, idx, pois,
                   aggregations, result, details, outcome, status>>

\* the await resumes, with an exception or with the answer;
\* elems = collect_elements(query); 404 when empty; result = {}
DetRunQuery(Answers) ==
    /\ pc = "det_run_wait"
    /\ \/ /\ upstream' = "failed"
          /\ Raise
          /\ UNCHANGED <<elems, idx, result>>
       \/ /\ upstream' = "ok"
          /\ \E es \in Answers :
                /\ elems' = es
                /\ IF Len(es) = 0
                   THEN /\ Fail(HTTP_NOT_FOUND)
                        /\ UNCHANGED <<idx, result>>
                   ELSE /\ result' = <<>>
                        /\ idx' = 1
                        /\ pc' = "det_nodes"
                        /\ UNCHANGED <<outcome, status>>
    /\ UNCHANGED <<handler, icao24, filter, poi_ids, flight, poly_str, query_parts,
                   query_str, pois, aggregations, details, calls>>

\* one iteration of: for node in elems
DetNode ==
    /\ pc = "det_nodes"
    /\ idx <= Len(elems)
    /\ LET node == elems[idx]
       IN  /\ details' = Details(node.tags)
           /\ IF HasCoordinates(node) /\ ~CoordinatesValid(node)
              THEN /\ Raise
                   /\ UNCHANGED <<result, idx>>
              ELSE /\ result' = Store(result, node.id,
                                      PoiDetail(node.id,
                                                TagGetDefault(node.tags, "name", "Unknown"),
                                                node.tags, Details(node.tags),
                                                NodeCoordinates(node)))
                   /\ idx' = idx + 1
                   /\ UNCHANGED <<pc, outcome, status>>
    /\ UNCHANGED <<handler, icao24, filter, poi_ids, flight, poly_str, query_parts,
                   query_str, upstream, elems, pois, aggregations, calls>>

\* return result
DetReturn ==
    /\ pc = "det_nodes"
    /\ idx > Len(elems)
    /\ pc' = "done"
    /\ outcome' = "returned"
    /\ status' = HTTP_OK
    /\ UNCHANGED <<handler, icao24, filter, poi_ids, flight, poly_str, query_parts,
                   query_str, upstream, elems, idx, pois, aggregations, result,
                   details, calls>>

---------------------------------------------------------------------------
\* Requests and Overpass answers the specifications draw from

\* the dicts with at most the key k, its value in vals
Opt(k, vals) == {<<>>} \cup {k :> v : v \in vals}

NodeIds == {1, 2, 3}

AggTags ==
    {a @@ b @@ c @@ d @@ e :
        a \in Opt("place", {"", "city"}), b \in Opt("historic", {"castle"}),
        c \in Opt("natural", {"water"}), d \in Opt("tourism", {"", "museum"}),
        e \in Opt("name", {"Town"})}

AggElements == {Element(1, t, <<>>) : t \in AggTags}

FewAggElements ==
    {Element(1, ("place" :> "city") @@ ("name" :> "Town"), <<>>),
     Element(2, ("natural" :> "water"), <<>>),
     Element(3, ("name" :> "Nowhere"), <<>>)}

Conditions ==
    {FilterCondition("place", op, v) :
        op \in {<<o>> : o \in Operator} \cup {None},
        v \in {None, StrVal("city"), StrVal(""), IntVal(0)}}
    \cup {FilterCondition("historic", <<"=">>, None)}

\* the numbers an existing lat or lon attribute may hold
Degrees == {<<0>>, <<55>>}
\* the values of an existing lat or lon attribute: the code reads whatever
\* the element object holds, a number or None
AttrValues == Degrees \cup {None}
Attrs == {a @@ b : a \in Opt("lat", AttrValues), b \in Opt("lon", AttrValues)}
Located == ("lat" :> <<55>>) @@ ("lon" :> <<37>>)

IdElements ==
    {Element(i, t, a) : i \in NodeIds, t \in Opt("name", {"Cafe"}),
                        a \in {Located, ("lat" :> <<55>>), ("lat" :> <<55>>) @@ ("lon" :> None)}}

AddressTags ==
    {a @@ b @@ c @@ d :
        a \in Opt("addr:full", {"Main St 5, Town"}), b \in Opt("addr:street", {"", "Main St"}),
        c \in Opt("addr:housenumber", {"5"}), d \in Opt("description", {"A cafe"})}

ContactTags ==
    {a @@ b @@ c @@ d :
        a \in Opt("website", {"https://cafe.example"}), b \in Opt("phone", {"+7 000"}),
        c \in Opt("opening_hours", {"Mo-Fr 09:00-18:00"}), d \in Opt("name", {"Cafe"})}

FieldElements ==
    {Element(1, t, Located) : t \in AddressTags \cup ContactTags}
    \cup {Element(2, ("name" :> "Cafe") @@ ("addr:full" :> "Main St 5, Town"), a) : a \in Attrs}

InitCommon ==
    /\ flight = None
    /\ poly_str = ""
    /\ query_parts = <<>>
    /\ query_str = ""
    /\ upstream = "none"
    /\ elems = <<>>
    /\ idx = 0
    /\ pois = <<>>
    /\ aggregations = <<>>
    /\ result = <<>>
    /\ details = <<>>
    /\ outcome = "pending"
    /\ status = 0
    /\ calls = NoCalls

\* a request POST /poi/flight/{icao24}/pois has arrived
InitAgg(Distances, FilterLists, Summarizations) ==
    /\ pc = "agg_flight"
    /\ handler = "get_aggregated_pois"
    /\ icao24 = "4b1805"
    /\ \E d \in Distances, fl \in FilterLists, ws \in Summarizations :
          filter = FilterRequest(d, fl, ws)
    /\ poi_ids = <<>>
    /\ InitCommon

\* a request POST /poi/pois/details has arrived
InitDet(IdLists) ==
    /\ pc = "det_validate"
    /\ handler = "get_pois_details"
    /\ icao24 = ""
    /\ filter = FilterRequest(DefaultDistance, DefaultFilters, FALSE)
    /\ poi_ids \in IdLists
    /\ InitCommon

\* Both handlers, on a few requests and answers
Init ==
    \/ InitAgg({0, DefaultDistance}, {DefaultFilters, <<>>}, BOOLEAN)
    \/ InitDet(SeqsUpTo(NodeIds, MaxIds))

Next ==
    \/ AggCallFlight
    \/ AggGetFlight
    \/ AggMakePoly
    \/ AggFilterCond
    \/ AggBuildQuery
    \/ AggSubmitQuery
    \/ AggRunQuery(SeqsUpTo(FewAggElements, MaxElems))
    \/ AggProject
    \/ AggReturn
    \/ DetValidate
    \/ DetSubmitQuery
    \/ DetRunQuery(SeqsUpTo(IdElements, MaxElems))
    \/ DetNode
    \/ DetReturn

Spec == Init /\ [][Next]_vars

\* get_aggregated_pois on the default filters, over many element lists
InitProjection == InitAgg({DefaultDistance}, {DefaultFilters}, {FALSE})

NextProjection ==
    \/ AggCallFlight
    \/ AggGetFlight
    \/ AggMakePoly
    \/ AggFilterCond
    \/ AggBuildQuery
    \/ AggSubmitQuery
    \/ AggRunQuery(SeqsUpTo(AggElements, MaxElems))
    \/ AggProject
    \/ AggReturn

SpecProjection == InitProjection /\ [][NextProjection]_vars

\* get_aggregated_pois over many filter lists
InitFilter == InitAgg({0, DefaultDistance}, SeqsUpTo(Conditions, MaxFilters), {FALSE})

NextFilter ==
    \/ AggCallFlight
    \/ AggGetFlight
    \/ AggMakePoly
    \/ AggFilterCond
    \/ AggBuildQuery
    \/ AggSubmitQuery
    \/ AggRunQuery({<<>>, <<Element(1, ("place" :> "city"), <<>>)>>})
    \/ AggProject
    \/ AggReturn

SpecFilter == InitFilter /\ [][NextFilter]_vars

\* get_pois_details over elements with many tags and attributes
InitFields == InitDet({<<1>>, <<2, 1>>})

NextFields ==
    \/ DetValidate
    \/ DetSubmitQuery
    \/ DetRunQuery(SeqsUpTo(FieldElements, MaxElems))
    \/ DetNode
    \/ DetReturn

SpecFields == InitFields /\ [][NextFields]_vars

---------------------------------------------------------------------------
\* Properties of get_aggregated_pois

TypeTags == <<"place", "historic", "natural", "tourism">>

HasTypeTag(tags) == \E i \in 1..Len(TypeTags) : TypeTags[i] \in DOMAIN tags

\* the value of the first tag of TypeTags that the element carries
FirstPresent(tags) ==
    LET first == CHOOSE i \in 1..Len(TypeTags) :
                    /\ TypeTags[i] \in DOMAIN tags
                    /\ \A j \in 1..(i - 1) : TypeTags[j] \notin DOMAIN tags
    IN  tags[TypeTags[first]]

RECURSIVE SumCounts(_)
SumCounts(agg) ==
    IF DOMAIN agg = {} THEN 0
    ELSE LET k == CHOOSE x \in DOMAIN agg : TRUE
         IN  agg[k] + SumCounts([x \in DOMAIN agg \ {k} |-> agg[x]])

\* the elements handled so far by the loop over elems
Handled == IF pc = "done" THEN 1..Len(elems) ELSE 1..(idx - 1)

Tagged == {i \in Handled : HasTypeTag(elems[i].tags)}

Projecting ==
    /\ handler = "get_aggregated_pois"
    /\ upstream = "ok"

\* the values of the type tags of the tagged elements handled so far
TaggedValues ==
    {elems[i].tags[TypeTags[j]] :
        <<i, j>> \in {ij \in Tagged \X (1..Len(TypeTags)) :
                        TypeTags[ij[2]] \in DOMAIN elems[ij[1]].tags}}

\* C1: the counts of aggregations sum to the number of handled elements that
\* carry one of the tags place, historic, natural, tourism, which is also the
\* length of pois; an element with none of the four tags adds nothing: every
\* POI and every counted type comes from a tagged element.
C1_CountsSumToTagged ==
    Projecting =>
        /\ SumCounts(aggregations) = Cardinality(Tagged)
        /\ Len(pois) = Cardinality(Tagged)
        /\ \A i \in 1..Len(pois) : pois[i].type \in TaggedValues
        /\ DOMAIN aggregations \subseteq TaggedValues

\* C2: a POI appended for an element has as its type the value of the first
\* tag the element carries in the order place, historic, natural, tourism.
C2_FirstPresentTagWins ==
    [][(pc = "agg_project" /\ Len(pois') = Len(pois) + 1)
          => pois'[Len(pois')].type = FirstPresent(elems[idx].tags)]_vars

\* the clause the claim expects for the i-th condition
ExpectedClause(i) ==
    LET cond == filter.overpass_filters[i]
    IN  IF cond.value = None
        THEN "node[\"" \o cond.key \o "\"](poly:\"" \o poly_str \o "\");"
        ELSE "node[\"" \o cond.key \o "\"=\"" \o Format(cond.value)
             \o "\"](poly:\"" \o poly_str \o "\");"

\* C3: query_parts holds one clause per condition handled, in the order of the
\* list, an equality clause when the value is present and a presence clause
\* when it is absent; the query string is these clauses, one per line, inside
\* one group "(" ... ");".
C3_OneClausePerCondition ==
    handler = "get_aggregated_pois" =>
        /\ pc = "agg_filters" => Len(query_parts) = idx - 1
        /\ \A i \in 1..Len(query_parts) : query_parts[i] = ExpectedClause(i)
        /\ query_str # "" =>
              /\ Len(query_parts) = Len(filter.overpass_filters)
              /\ query_str = "[out:json];\n(\n"
                             \o Join("\n", [i \in 1..Len(query_parts) |-> ExpectedClause(i)])
                             \o "\n);\nout body;"

C3_Witness ==
    /\ pc = "agg_run"
    /\ Len(filter.overpass_filters) = 2
    /\ filter.overpass_filters[1].value = StrVal("")
    /\ filter.overpass_filters[2].value = None
    /\ query_parts[1] = "node[\"place\"=\"\"](poly:\"" \o poly_str \o "\");"
    /\ query_parts[2] = "node[\"historic\"](poly:\"" \o poly_str \o "\");"

AnyOperator == {<<o>> : o \in Operator} \cup {None}

\* C10: the clause emitted for a condition is the clause emitted for the same
\* key and value under every operator and under operator None, and the only
\* request rejected is the one whose flight is not found.
C10_OperatorIgnored ==
    handler = "get_aggregated_pois" =>
        /\ \A i \in 1..Len(query_parts) : \A op \in AnyOperator :
              Clause([filter.overpass_filters[i] EXCEPT !.operator = op], poly_str)
                 = query_parts[i]
        /\ outcome = "http_error" => flight = None /\ query_parts = <<>>

C10_Witness ==
    /\ outcome = "returned"
    /\ Len(query_parts) = 2
    /\ filter.overpass_filters[1].operator = <<"!=">>
    /\ filter.overpass_filters[1].value = StrVal("city")
    /\ filter.overpass_filters[2].operator = None
    /\ filter.overpass_filters[2].value = None

\* C5: without a flight the request ends with 404 and neither the polygon
\* builder nor the Overpass client is called; with a flight the Overpass
\* client is called once.
C5_NoFlightNoQuery ==
    handler = "get_aggregated_pois" =>
        /\ calls.overpass <= 1
        /\ flight = None => calls.poly = 0 /\ calls.overpass = 0
        /\ (pc = "done" /\ flight = None) => outcome = "http_error" /\ status = HTTP_NOT_FOUND
        /\ (pc = "done" /\ flight # None) => calls.poly = 1 /\ calls.overpass = 1
        /\ pc = "agg_flight_wait" => calls = [NoCalls EXCEPT !.flight = 1]
        /\ pc = "agg_run_wait" => flight # None /\ calls.overpass = 1

C5_Witness ==
    /\ handler = "get_aggregated_pois"
    /\ pc = "done"
    /\ calls.flight = 1
    /\ flight = None
    /\ status = HTTP_NOT_FOUND

\* C6: when api.run_query fails, the request ends with a 502 or 504 response.
C6_UpstreamFailureIs5xx ==
    upstream = "failed" => outcome = "http_error" /\ status \in {502, 504}

---------------------------------------------------------------------------
\* Properties of get_pois_details

\* C4: an empty poi_ids list is rejected with 400 and no query is submitted.
C4_EmptyIdsRejected ==
    (handler = "get_pois_details" /\ poi_ids = <<>>) =>
        /\ calls.overpass = 0
        /\ upstream = "none"
        /\ pc = "done" => outcome = "http_error" /\ status = HTTP_BAD_REQUEST

C4_Witness ==
    /\ handler = "get_pois_details"
    /\ poi_ids = <<>>
    /\ pc = "done"
    /\ status = HTTP_BAD_REQUEST

ElemIds(S) == {elems[i].id : i \in S}

\* C7: with a non-empty poi_ids list, an empty result ends with 404; else the
\* keys of result are the ids of the elements handled, each value has its key
\* as id, and the returned map has the ids of all elements as keys, whether
\* or not every requested id is among them.
C7_KeysAreReturnedIds ==
    (handler = "get_pois_details" /\ poi_ids # <<>> /\ upstream = "ok") =>
        /\ elems = <<>> => outcome = "http_error" /\ status = HTTP_NOT_FOUND
        /\ elems # <<>> =>
              /\ outcome # "http_error"
              /\ DOMAIN result = ElemIds(IF outcome = "returned" THEN 1..Len(elems)
                                                                  ELSE 1..(idx - 1))
              /\ \A k \in DOMAIN result : result[k].id = k
              /\ outcome = "returned" => status = HTTP_OK

C7_Witness ==
    /\ handler = "get_pois_details"
    /\ outcome = "returned"
    /\ Len(elems) = 2
    /\ elems[1].id = elems[2].id
    /\ \E i \in 1..Len(poi_ids) : poi_ids[i] \notin DOMAIN result

\* the node of the last iteration of the loop of get_pois_details
LastNode == IF outcome = "unhandled" THEN elems[idx] ELSE elems[idx - 1]

SomeNodeHandled ==
    /\ handler = "get_pois_details"
    /\ upstream = "ok"
    /\ elems # <<>>
    /\ idx > 1 \/ outcome = "unhandled"

MissingCoordinate(node) ==
    \E a \in {"lat", "lon"} : a \notin DOMAIN node.attrs

\* C8: for a node that lacks the latitude or the longitude attribute the
\* handler goes on and stores its PoiDetail with coordinates None, also when
\* the other attribute is there; coordinates is set only for a node that has
\* both, and then holds the two.
C8_MissingCoordinateGivesNone ==
    SomeNodeHandled =>
        /\ MissingCoordinate(LastNode) =>
              /\ outcome # "unhandled"
              /\ result[LastNode.id].coordinates = None
        /\ (outcome # "unhandled" /\ result[LastNode.id].coordinates # None) =>
              /\ ~MissingCoordinate(LastNode)
              /\ result[LastNode.id].coordinates[1].latitude = LastNode.attrs["lat"][1]
              /\ result[LastNode.id].coordinates[1].longitude = LastNode.attrs["lon"][1]

C8_Witness ==
    /\ SomeNodeHandled
    /\ outcome = "returned"
    /\ DOMAIN LastNode.attrs = {"lat"}
    /\ result[LastNode.id].coordinates = None

\* C9: the address entries of details exclude each other.  With addr:full the
\* full address is its value and there is no street address; without it there
\* is no full address, and the street address is there exactly when
\* addr:street or addr:housenumber is, made of those present, street first,
\* joined by a space.
C9_AddressExclusive ==
    SomeNodeHandled =>
        LET tags == LastNode.tags
            street == "addr:street" \in DOMAIN tags
            number == "addr:housenumber" \in DOMAIN tags
        IN  /\ "addr:full" \in DOMAIN tags =>
                  /\ KeyFullAddress \in DOMAIN details
                  /\ details[KeyFullAddress] = tags["addr:full"]
                  /\ KeyAddress \notin DOMAIN details
            /\ "addr:full" \notin DOMAIN tags =>
                  /\ KeyFullAddress \notin DOMAIN details
                  /\ KeyAddress \in DOMAIN details <=> (street \/ number)
                  /\ (street /\ number) =>
                        details[KeyAddress] = tags["addr:street"] \o " " \o tags["addr:housenumber"]
                  /\ (street /\ ~number) => details[KeyAddress] = tags["addr:street"]
                  /\ (~street /\ number) => details[KeyAddress] = tags["addr:housenumber"]
            /\ outcome # "unhandled" => result[LastNode.id].details = details

C9_Witness ==
    /\ SomeNodeHandled
    /\ outcome = "returned"
    /\ {"addr:full", "addr:street", "addr:housenumber"} \subseteq DOMAIN LastNode.tags
    /\ DOMAIN details \cap {KeyFullAddress, KeyAddress} = {KeyFullAddress}

====
